---------------------------- MODULE Spec2Model ----------------------------
(***************************************************************************)
(* ccheatmap: the log aggregator (src/src/data-loader.ts) and the grid     *)
(* builder, intensity classifier and statistics of the heatmap renderer    *)
(* (src/src/heatmap-renderer.ts).                                          *)
(*                                                                         *)
(* Time.  A JavaScript Date is an instant; the model counts instants in    *)
(* hours since the epoch.  The host's zone is a fixed offset tz (hours     *)
(* east of UTC, no daylight saving), so Date.setDate and date-fns addDays  *)
(* move an instant by whole multiples of HoursPerDay.  A date key          *)
(* "YYYY-MM-DD" is modelled by the number of the UTC day it names, which   *)
(* orders the keys as the strings are ordered.                             *)
(***************************************************************************)
EXTENDS Integers, Sequences, FiniteSets, TLC

VARIABLES
    now,          \* the clock: what `new Date()` returns
    tz,           \* the host's zone offset, hours east of UTC
    fs,           \* the roots (claudePaths) in listing order, with their trees
    days,         \* loadUsageData's argument in the current run
    endDate,      \* loadUsageData: endDate
    cutoffDate,   \* loadUsageData: cutoffDate
    activityMap,  \* loadUsageData: activityMap, date key -> DailyActivity
    pc,           \* where the aggregation pass stands
    ri, pi, fi, li, \* loop positions: root, project, file, line
    prev,         \* a caller's copy of an earlier run's result
    options,      \* render: options.metric and options.days
    columns,      \* process.stdout.columns, 0 when it is undefined
    impl,         \* which of the two HeatmapRenderer texts of the file built the grid
    range,        \* render: startDate and endDate
    cells,        \* render: cells, the grid
    stats,        \* renderStats: the figures of the statistics block
    rpc,          \* where render, and main after the aggregation, stands
    json,         \* main: options.json, the --json flag
    output        \* main: what was written to the standard output

loaderVars == <<days, endDate, cutoffDate, activityMap, pc, ri, pi, fi, li>>
renderVars == <<options, columns, impl, range, cells, stats, rpc>>
mainVars == <<json, output>>
vars == <<now, tz, fs, days, endDate, cutoffDate, activityMap, pc, ri, pi, fi, li, prev,
          options, columns, impl, range, cells, stats, rpc, json, output>>

----------------------------------------------------------------------------
(* Bounds of the model *)

BaseDay == 20          \* the UTC day on which the clock starts
MaxTicks == 2          \* half-day steps the clock may advance
MaxDays == 2           \* largest windowDays tried by the loader

(* Program constants *)

HoursPerDay == 24
DaysPerWeek == 7

----------------------------------------------------------------------------
(* Dates *)

\* Date.prototype.toISOString().split('T')[0]: the UTC calendar day of an instant
UTCDay(t) == t \div HoursPerDay

\* the first instant of a UTC day, e.g. 2024-03-01T00:00:00Z
UTCMidnight(d) == d * HoursPerDay

\* Faulty variant: the cutoff one day too far back
MinusDays_OneMore(t, n) == t - (n + 1) * HoursPerDay

\* Date.prototype.setDate(getDate() - n): n local calendar days back, same local time of day
MinusDays(t, n) == t - n * HoursPerDay

----------------------------------------------------------------------------
(* Log lines *)

NoUsage == [f \in {} |-> 0]

BadLine  == [kind |-> "notjson", ts |-> 0, hasUsage |-> FALSE, usage |-> NoUsage]
NullLine == [kind |-> "null",    ts |-> 0, hasUsage |-> FALSE, usage |-> NoUsage]
NoTsLine == [kind |-> "nots",    ts |-> 0, hasUsage |-> FALSE, usage |-> NoUsage]
BadTsLine == [kind |-> "badts",  ts |-> 0, hasUsage |-> FALSE, usage |-> NoUsage]

Rec(t)      == [kind |-> "rec", ts |-> t, hasUsage |-> FALSE, usage |-> NoUsage]
RecU(t, u)  == [kind |-> "rec", ts |-> t, hasUsage |-> TRUE,  usage |-> u]

UsageFull == [input_tokens |-> 100, output_tokens |-> 200,
              cache_creation_input_tokens |-> 0, cache_read_input_tokens |-> 5]
UsageInCw == [input_tokens |-> 1, cache_creation_input_tokens |-> 4]
UsageOutCr == [output_tokens |-> 2, cache_read_input_tokens |-> 16]

UsagePool == {UsageFull, UsageInCw, UsageOutCr, NoUsage}

----------------------------------------------------------------------------
(* The directory trees the loader walks.  A root is a `projects` directory;
   an entry of a root is a project directory, a plain file, or an entry whose
   stat or listing fails; an entry of a project is a readable or unreadable
   .jsonl file or a file with another extension. *)

HalfDay == HoursPerDay \div 2

TsPool == { UTCMidnight(BaseDay - 2),            \* midnight, two days before the first clock day
            UTCMidnight(BaseDay - 1),            \* midnight of the day before
            UTCMidnight(BaseDay - 1) + HalfDay,  \* noon of the day before
            UTCMidnight(BaseDay) + 6,            \* the first clock day, early morning
            UTCMidnight(BaseDay + 3) }           \* a timestamp after every clock reading

LinePool == {BadLine, NullLine, NoTsLine, BadTsLine}
              \cup {Rec(t) : t \in TsPool}
              \cup {RecU(UTCMidnight(BaseDay) + 6, u) : u \in UsagePool}

SecondPool == {BadLine, Rec(UTCMidnight(BaseDay) + 6), RecU(UTCMidnight(BaseDay - 1) + HalfDay, UsageInCw)}

ProjectStatus == {"dir", "file", "staterr", "listerr"}
FileKind == {"jsonl", "unreadable", "other"}

File(name, kind, lines) == [name |-> name, kind |-> kind, lines |-> lines]
Project(name, status, files) == [name |-> name, status |-> status, files |-> files]
Root(listable, projects) == [listable |-> listable, projects |-> projects]

Tree(xs, st, fk, rl) ==
    << Root(TRUE,
            << Project("alpha", st,
                       << File("s1", fk, xs) >>),
               Project("beta", "dir",
                       << File("s1", "jsonl", <<RecU(UTCMidnight(BaseDay) + 6, UsageFull)>>),
                          File("s2", "jsonl", <<Rec(UTCMidnight(BaseDay - 1) + HalfDay)>>) >>) >>),
       Root(rl,
            << Project("alpha", "dir",
                       << File("s1", "jsonl", <<Rec(UTCMidnight(BaseDay) + 6)>>) >>) >>) >>

Trees == { Tree(<<x, BadLine, y>>, st, fk, rl) :
             x \in LinePool, y \in SecondPool, st \in ProjectStatus,
             fk \in FileKind, rl \in BOOLEAN }

\* the trees of the runs that are compared with one another
OrderTrees == { Tree(<<x, Rec(UTCMidnight(BaseDay - 1))>>, st, "jsonl", TRUE) :
                  x \in {BadLine, RecU(UTCMidnight(BaseDay) + 6, UsageInCw)},
                  st \in ProjectStatus }

----------------------------------------------------------------------------
(* DataLoader.processJsonlFile, one line *)

EmptyMap == [k \in {} |-> 0]

\* (usage.f || 0)
OrZero(usage, f) == IF f \in DOMAIN usage THEN usage[f] ELSE 0

\* Faulty variant: the cache-read counter left out of the sum
TokenSum_NoCacheRead(usage) ==
    OrZero(usage, "input_tokens") + OrZero(usage, "output_tokens")
      + OrZero(usage, "cache_creation_input_tokens")

TokenSum(usage) ==
    OrZero(usage, "input_tokens") + OrZero(usage, "output_tokens")
      + OrZero(usage, "cache_creation_input_tokens")
      + OrZero(usage, "cache_read_input_tokens")

\* Faulty variant: the fold stops after interactions++, the tokens are left out
FoldEntry_NoTokens(map, line, project, session) ==
    LET dateKey == UTCDay(line.ts)
        old == IF dateKey \in DOMAIN map
                 THEN map[dateKey]
                 ELSE [date |-> dateKey, sessions |-> {}, interactions |-> 0, tokens |-> 0]
        new == [date |-> old.date,
                sessions |-> old.sessions \cup {<<project, session>>},
                interactions |-> old.interactions + 1,
                tokens |-> old.tokens]
    IN  [k \in DOMAIN map \cup {dateKey} |-> IF k = dateKey THEN new ELSE map[k]]

\* lines 153-178: the record is folded into its day's entry
FoldEntry(map, line, project, session) ==
    LET dateKey == UTCDay(line.ts)
        old == IF dateKey \in DOMAIN map
                 THEN map[dateKey]
                 ELSE [date |-> dateKey, sessions |-> {}, interactions |-> 0, tokens |-> 0]
        new == [date |-> old.date,
                sessions |-> old.sessions \cup {<<project, session>>},
                interactions |-> old.interactions + 1,
                tokens |-> IF line.hasUsage THEN old.tokens + TokenSum(line.usage)
                                            ELSE old.tokens]
    IN  [k \in DOMAIN map \cup {dateKey} |-> IF k = dateKey THEN new ELSE map[k]]

\* Faulty variant: a record exactly at the cutoff is dropped too
BeforeCutoff_Inclusive(t, cutoff) == t <= cutoff

\* entryDate < cutoffDate
BeforeCutoff(t, cutoff) == t < cutoff

\* Faulty variant: the day's entry is created before the cutoff test
LineResult_EntryFirst(map, line, project, session, cutoff) ==
    IF line.kind # "rec" THEN map
    ELSE IF BeforeCutoff(line.ts, cutoff)
      THEN [k \in DOMAIN map \cup {UTCDay(line.ts)} |->
              IF k \in DOMAIN map THEN map[k]
              ELSE [date |-> k, sessions |-> {}, interactions |-> 0, tokens |-> 0]]
    ELSE FoldEntry(map, line, project, session)

\* lines 142-181: a line that JSON.parse rejects, a null entry (entry.timestamp
\* throws) and an entry without a valid timestamp (toISOString throws) all end in
\* the inner catch; an old entry is skipped by `continue`
LineResult(map, line, project, session, cutoff) ==
    IF line.kind # "rec" THEN map
    ELSE IF BeforeCutoff(line.ts, cutoff) THEN map
    ELSE FoldEntry(map, line, project, session)

----------------------------------------------------------------------------
(* The aggregation pass, DataLoader.loadUsageData *)

\* renderStats, lines 320-325: the figures before the loop
NoStats ==
    [totalDays |-> 0, totalValue |-> 0, maxValue |-> 0,
     currentStreak |-> 0, longestStreak |-> 0, tempStreak |-> 0]

\* no HeatmapRenderer has been constructed
NoRender ==
    /\ options = [metric |-> "sessions", days |-> 0]
    /\ columns = 0
    /\ impl = 0
    /\ range = [startDate |-> 0, endDate |-> 0]
    /\ cells = <<>>
    /\ stats = NoStats
    /\ rpc = "idle"

\* main has written nothing, and was run without --json
NoOutput == [kind |-> "none", data |-> EmptyMap]

NoMain ==
    /\ json = FALSE
    /\ output = NoOutput

NoRun == [kept |-> FALSE, clock |-> 0, days |-> 0, fs |-> <<>>, index |-> EmptyMap]

LastTick == UTCMidnight(BaseDay) + MaxTicks * HalfDay

Init ==
    /\ now = UTCMidnight(BaseDay)
    /\ tz = 0
    /\ fs \in Trees
    /\ days = 0
    /\ endDate = 0
    /\ cutoffDate = 0
    /\ activityMap = EmptyMap
    /\ pc = "idle"
    /\ ri = 0 /\ pi = 0 /\ fi = 0 /\ li = 0
    /\ prev = NoRun
    /\ NoRender
    /\ NoMain

InitOrder ==
    /\ now = UTCMidnight(BaseDay)
    /\ tz = 0
    /\ fs \in OrderTrees
    /\ days = 0
    /\ endDate = 0
    /\ cutoffDate = 0
    /\ activityMap = EmptyMap
    /\ pc = "idle"
    /\ ri = 0 /\ pi = 0 /\ fi = 0 /\ li = 0
    /\ prev = NoRun
    /\ NoRender
    /\ NoMain

\* the clock advances between runs (a run reads it once, at lines 71-72)
Tick ==
    /\ pc \in {"idle", "done"}
    /\ now < LastTick
    /\ now' = now + HalfDay
    /\ UNCHANGED <<tz, fs, prev>>
    /\ UNCHANGED loaderVars
    /\ UNCHANGED renderVars
    /\ UNCHANGED mainVars

\* Faulty variant: the map outlives the call instead of being created at line 70
LoadUsageData_ReuseMap ==
    /\ pc \in {"idle", "done"}
    /\ \E n \in 1..MaxDays :
         /\ days' = n
         /\ cutoffDate' = MinusDays(now, n)
    /\ endDate' = now
    /\ activityMap' = activityMap
    /\ ri' = 1 /\ pi' = 0 /\ fi' = 0 /\ li' = 0
    /\ pc' = "roots"
    /\ UNCHANGED <<now, tz, fs, prev>>
    /\ UNCHANGED renderVars
    /\ UNCHANGED mainVars

\* lines 69-73: a fresh map, the clock read, the cutoff `days` days back
LoadUsageData ==
    /\ pc \in {"idle", "done"}
    /\ \E n \in 1..MaxDays :
         /\ days' = n
         /\ cutoffDate' = MinusDays(now, n)
    /\ endDate' = now
    /\ activityMap' = EmptyMap
    /\ ri' = 1 /\ pi' = 0 /\ fi' = 0 /\ li' = 0
    /\ pc' = "roots"
    /\ UNCHANGED <<now, tz, fs, prev>>
    /\ UNCHANGED renderVars
    /\ UNCHANGED mainVars

\* lines 75-77 and 92-93: the next root is listed; a failing readdir ends in the
\* catch of processDirectory
ProcessDirectory ==
    /\ pc = "roots"
    /\ ri <= Len(fs)
    /\ IF fs[ri].listable
         THEN pc' = "projects" /\ pi' = 1 /\ ri' = ri
         ELSE pc' = "roots" /\ pi' = pi /\ ri' = ri + 1
    /\ UNCHANGED <<now, tz, fs, prev, days, endDate, cutoffDate, activityMap, fi, li>>
    /\ UNCHANGED renderVars
    /\ UNCHANGED mainVars

\* lines 106 and 112: the entries of a project the file loop runs over
JsonlFiles(project) == SelectSeq(project.files, LAMBDA f : f.kind # "other")

\* lines 99-117: one entry of the root.  stat and readdir are awaited inside the
\* try of processDirectory, so a failure of either leaves the loop for the catch
\* at line 118 and the pass goes on with the next root
ProcessProject ==
    /\ pc = "projects"
    /\ LET projects == fs[ri].projects IN
         IF pi > Len(projects)
           THEN pc' = "roots" /\ ri' = ri + 1 /\ pi' = pi /\ fi' = fi
           ELSE CASE projects[pi].status = "dir" ->
                       pc' = "files" /\ fi' = 1 /\ pi' = pi /\ ri' = ri
                  [] projects[pi].status = "file" ->
                       pc' = "projects" /\ pi' = pi + 1 /\ ri' = ri /\ fi' = fi
                  [] OTHER ->
                       pc' = "roots" /\ ri' = ri + 1 /\ pi' = pi /\ fi' = fi
    /\ UNCHANGED <<now, tz, fs, prev, days, endDate, cutoffDate, activityMap, li>>
    /\ UNCHANGED renderVars
    /\ UNCHANGED mainVars

\* lines 112-116 and 133-135: the next .jsonl file is read; a failing readFile
\* ends in the catch of processJsonlFile
ProcessJsonlFile ==
    /\ pc = "files"
    /\ LET files == JsonlFiles(fs[ri].projects[pi]) IN
         IF fi > Len(files)
           THEN pc' = "projects" /\ pi' = pi + 1 /\ fi' = fi /\ li' = li
           ELSE IF files[fi].kind = "unreadable"
                  THEN pc' = "files" /\ fi' = fi + 1 /\ pi' = pi /\ li' = li
                  ELSE pc' = "lines" /\ li' = 1 /\ fi' = fi /\ pi' = pi
    /\ UNCHANGED <<now, tz, fs, prev, days, endDate, cutoffDate, activityMap, ri>>
    /\ UNCHANGED renderVars
    /\ UNCHANGED mainVars

\* the file and the line the pass stands at
CurProject == fs[ri].projects[pi]
CurFile == JsonlFiles(CurProject)[fi]
AtLine == pc = "lines" /\ li <= Len(CurFile.lines)
CurLine == CurFile.lines[li]

\* Faulty variant: the try is around the loop: a line that throws ends the file
ProcessLine_AbortOnThrow ==
    /\ pc = "lines"
    /\ IF li > Len(CurFile.lines) \/ CurLine.kind # "rec"
         THEN /\ pc' = "files" /\ fi' = fi + 1 /\ li' = li
              /\ activityMap' = activityMap
         ELSE /\ pc' = "lines" /\ li' = li + 1 /\ fi' = fi
              /\ activityMap' = LineResult(activityMap, CurLine, CurProject.name,
                                           CurFile.name, cutoffDate)
    /\ UNCHANGED <<now, tz, fs, prev, days, endDate, cutoffDate, ri, pi>>
    /\ UNCHANGED renderVars
    /\ UNCHANGED mainVars

\* lines 141-182: one line of the file
ProcessLine ==
    /\ pc = "lines"
    /\ IF li > Len(CurFile.lines)
         THEN /\ pc' = "files" /\ fi' = fi + 1 /\ li' = li
              /\ activityMap' = activityMap
         ELSE /\ pc' = "lines" /\ li' = li + 1 /\ fi' = fi
              /\ activityMap' = LineResult(activityMap, CurLine, CurProject.name,
                                           CurFile.name, cutoffDate)
    /\ UNCHANGED <<now, tz, fs, prev, days, endDate, cutoffDate, ri, pi>>
    /\ UNCHANGED renderVars
    /\ UNCHANGED mainVars

\* line 84
Return ==
    /\ pc = "roots"
    /\ ri > Len(fs)
    /\ pc' = "done"
    /\ UNCHANGED <<now, tz, fs, prev, days, endDate, cutoffDate, activityMap, ri, pi, fi, li>>
    /\ UNCHANGED renderVars
    /\ UNCHANGED mainVars

\* a caller that runs loadUsageData twice keeps the first result
KeepResult ==
    /\ pc = "done"
    /\ ~prev.kept
    /\ prev' = [kept |-> TRUE, clock |-> endDate, days |-> days, fs |-> fs,
                index |-> activityMap]
    /\ pc' = "idle"
    /\ UNCHANGED <<now, tz, fs, days, endDate, cutoffDate, activityMap, ri, pi, fi, li>>
    /\ UNCHANGED renderVars
    /\ UNCHANGED mainVars

\* readdir and split('\n') return the same entries in another order
Swap(seq, i) == [k \in 1..Len(seq) |-> IF k = i THEN seq[i + 1]
                                       ELSE IF k = i + 1 THEN seq[i] ELSE seq[k]]

Shuffle ==
    /\ pc = "idle"
    /\ prev.kept
    /\ \/ \E i \in 1..(Len(fs) - 1) : fs' = Swap(fs, i)
       \/ \E r \in 1..Len(fs) : \E i \in 1..(Len(fs[r].projects) - 1) :
            fs' = [fs EXCEPT ![r].projects = Swap(@, i)]
       \/ \E r \in 1..Len(fs) : \E p \in 1..Len(fs[r].projects) :
            \E i \in 1..(Len(fs[r].projects[p].files) - 1) :
              fs' = [fs EXCEPT ![r].projects[p].files = Swap(@, i)]
       \/ \E r \in 1..Len(fs) : \E p \in 1..Len(fs[r].projects) :
            \E f \in 1..Len(fs[r].projects[p].files) :
              \E i \in 1..(Len(fs[r].projects[p].files[f].lines) - 1) :
                fs' = [fs EXCEPT ![r].projects[p].files[f].lines = Swap(@, i)]
    /\ UNCHANGED <<now, tz, prev>>
    /\ UNCHANGED loaderVars
    /\ UNCHANGED renderVars
    /\ UNCHANGED mainVars

Next ==
    \/ Tick
    \/ LoadUsageData
    \/ ProcessDirectory
    \/ ProcessProject
    \/ ProcessJsonlFile
    \/ ProcessLine
    \/ Return

Spec == Init /\ [][Next]_vars

NextOrder ==
    \/ Next
    \/ KeepResult
    \/ Shuffle

SpecOrder == InitOrder /\ [][NextOrder]_vars

----------------------------------------------------------------------------
(* Notions the properties of the aggregation pass are stated with *)

Interactions(map, k) == IF k \in DOMAIN map THEN map[k].interactions ELSE 0
Tokens(map, k) == IF k \in DOMAIN map THEN map[k].tokens ELSE 0
Sessions(map, k) == IF k \in DOMAIN map THEN map[k].sessions ELSE {}

\* the UTC calendar day of the run
Today == UTCDay(endDate)

\* the step about to be taken folds the current line: its day gains one interaction
FoldsCurLine ==
    /\ UTCDay(CurLine.ts) \in DOMAIN activityMap'
    /\ Interactions(activityMap', UTCDay(CurLine.ts))
         = Interactions(activityMap, UTCDay(CurLine.ts)) + 1
    /\ <<CurProject.name, CurFile.name>> \in Sessions(activityMap', UTCDay(CurLine.ts))

\* the line just processed
PastLine == CurFile.lines[li - 1]
HasPastLine == pc = "lines" /\ li > 1

----------------------------------------------------------------------------
(* C1 *)

\* C1 as stated: in a run with windowDays = N, a record timestamped at midnight of
\* the day today - N is included and a record timestamped one day before that is
\* excluded, at whatever time of day the run happens.
C1_Original ==
    [][ (AtLine /\ CurLine.kind = "rec")
          => /\ CurLine.ts = UTCMidnight(Today - days) => FoldsCurLine
             /\ CurLine.ts = UTCMidnight(Today - days - 1) => activityMap' = activityMap
      ]_vars

\* C1 as amended: the cutoff is the instant N days before the clock reading of the
\* run, with the run's time of day; a record timestamped exactly at that instant is
\* included, and a record timestamped before it (one day before it, or at the
\* midnight that opens the cutoff's day when the run is later in the day) is excluded.
C1_CutoffInstant ==
    [][ (AtLine /\ CurLine.kind = "rec")
          => /\ CurLine.ts = endDate - days * HoursPerDay => FoldsCurLine
             /\ CurLine.ts = endDate - days * HoursPerDay - HoursPerDay
                  => activityMap' = activityMap
             /\ (CurLine.ts = UTCMidnight(Today - days) /\ endDate # UTCMidnight(Today))
                  => activityMap' = activityMap
      ]_vars

\* a run at noon has counted the record timestamped at noon N days earlier
C1_Witness ==
    /\ HasPastLine
    /\ endDate = UTCMidnight(Today) + HalfDay
    /\ PastLine.kind = "rec"
    /\ PastLine.ts = endDate - days * HoursPerDay
    /\ Interactions(activityMap, UTCDay(PastLine.ts)) >= 1

----------------------------------------------------------------------------
(* C2 *)

\* C2 as stated: after loadUsageData(N) every key of the index is one of the N
\* calendar days ending today: none older than today - N + 1, none later than today.
C2_Original ==
    pc = "done" => \A k \in DOMAIN activityMap : Today - days + 1 <= k /\ k <= Today

\* C2 as amended: after loadUsageData(N) no key of the index is older than the
\* UTC day of the cutoff instant, today - N; the day today - N itself and days later
\* than today can be keys.
C2_NoKeyBeforeCutoffDay ==
    pc = "done" => \A k \in DOMAIN activityMap : Today - days <= k

\* a finished run whose index holds the day today - N and a day after today
C2_Witness ==
    /\ pc = "done"
    /\ (Today - days) \in DOMAIN activityMap
    /\ \E k \in DOMAIN activityMap : k > Today

----------------------------------------------------------------------------
(* C3 *)

Range(seq) == {seq[i] : i \in DOMAIN seq}

\* the records, not older than the cutoff, of the readable files of the listable
\* projects of the listable roots, as <<date key, session id>>
ReadableRecords ==
    UNION { UNION { UNION {
        { <<UTCDay(l.ts), <<p.name, f.name>> >> :
            l \in {x \in Range(f.lines) : x.kind = "rec" /\ x.ts >= cutoffDate} } :
          f \in {g \in Range(p.files) : g.kind = "jsonl"} } :
        p \in {q \in Range(r.projects) : q.status = "dir"} } :
      r \in {x \in Range(fs) : x.listable} }

\* C3: when an entry of a root cannot be stat-ed or listed, or a file cannot be
\* read, the records of every other readable project and file, the later entries of
\* the same root included, are in the returned index.
C3_Original ==
    pc = "done" =>
      \A rec \in ReadableRecords :
        rec[1] \in DOMAIN activityMap /\ rec[2] \in activityMap[rec[1]].sessions


----------------------------------------------------------------------------
(* C4 *)

RECURSIVE SumInteractions(_, _)
SumInteractions(map, keys) ==
    IF keys = {} THEN 0
    ELSE LET k == CHOOSE x \in keys : TRUE
         IN  map[k].interactions + SumInteractions(map, keys \ {k})

TotalInteractions == SumInteractions(activityMap, DOMAIN activityMap)

Qualifies(line) == line.kind = "rec" /\ line.ts >= cutoffDate

\* the first file the pass reads: the map was empty when it was opened
InFirstFile == pc = "lines" /\ ri = 1 /\ pi = 1 /\ fi = 1

\* C4: a line that is not valid JSON changes nothing in the index and the pass goes
\* on with the next line; the qualifying records before and after it are each
\* counted, so that the first file read has contributed exactly as many
\* interactions as it has qualifying records among the lines read so far.
C4_MalformedLineSkipped ==
    /\ [][ AtLine =>
             /\ pc' = "lines" /\ li' = li + 1
             /\ CurLine.kind = "notjson" => activityMap' = activityMap
             /\ Qualifies(CurLine) => FoldsCurLine ]_vars
    /\ [](InFirstFile =>
            TotalInteractions
              = Cardinality({i \in 1..(li - 1) : Qualifies(CurFile.lines[i])}))

\* a file of two qualifying records around one malformed line, read to its end,
\* has yielded 2 interactions
C4_Witness ==
    /\ InFirstFile
    /\ li = 4
    /\ Qualifies(CurFile.lines[1])
    /\ CurFile.lines[2].kind = "notjson"
    /\ Qualifies(CurFile.lines[3])
    /\ TotalInteractions = 2

----------------------------------------------------------------------------
(* C5 *)

Counter(usage, f) == IF f \in DOMAIN usage THEN usage[f] ELSE 0

\* C5: a qualifying record adds input + output + cache-creation + cache-read tokens
\* to its day's token total, an absent counter being 0 (100, 200, 0, 5 adds 305);
\* a record without a usage payload adds 0 tokens; either adds 1 interaction.
C5_TokenSummation ==
    [][ (AtLine /\ Qualifies(CurLine)) =>
          LET k == UTCDay(CurLine.ts)
              u == CurLine.usage
              added == Tokens(activityMap', k) - Tokens(activityMap, k)
          IN  /\ Interactions(activityMap', k) = Interactions(activityMap, k) + 1
              /\ ~CurLine.hasUsage => added = 0
              /\ CurLine.hasUsage =>
                   added = Counter(u, "input_tokens") + Counter(u, "output_tokens")
                             + Counter(u, "cache_creation_input_tokens")
                             + Counter(u, "cache_read_input_tokens")
              /\ (CurLine.hasUsage /\ u = UsageFull) => added = 305
      ]_vars

\* a day holding a record with the usage 100, 200, 0, 5 and a record without usage
C5_Witness ==
    /\ InFirstFile
    /\ li = 4
    /\ CurFile.lines[1].hasUsage /\ CurFile.lines[1].usage = UsageFull
    /\ Qualifies(CurFile.lines[3]) /\ ~CurFile.lines[3].hasUsage
    /\ UTCDay(CurFile.lines[1].ts) = UTCDay(CurFile.lines[3].ts)
    /\ activityMap[UTCDay(CurFile.lines[1].ts)].tokens = 305
    /\ activityMap[UTCDay(CurFile.lines[1].ts)].interactions = 2

----------------------------------------------------------------------------
(* C6 *)

\* C6: with the clock and the files fixed, a run that lists the roots, projects,
\* files and lines in another order returns the same index.
C6_Original ==
    (pc = "done" /\ prev.kept /\ prev.clock = endDate /\ prev.days = days)
      => activityMap = prev.index

----------------------------------------------------------------------------
(* C7 *)

\* C7 as stated: two runs with the same windowDays over the same unchanged files
\* return identical indexes.
C7_Original ==
    (pc = "done" /\ prev.kept /\ prev.days = days /\ prev.fs = fs)
      => activityMap = prev.index

\* C7 as amended: two runs with the same windowDays over the same unchanged files
\* that read the same clock value return identical indexes, and the second starts
\* from an empty map; a run that reads a later clock value has a later cutoff and
\* drops the records that have left the window.
C7_SameClockSameIndex ==
    (pc = "done" /\ prev.kept /\ prev.days = days /\ prev.fs = fs
       /\ prev.clock = endDate)
      => activityMap = prev.index

\* a second run over the same files at the same clock value, with records counted
C7_Witness ==
    /\ pc = "done" /\ prev.kept /\ prev.days = days /\ prev.fs = fs
    /\ prev.clock = endDate
    /\ activityMap # EmptyMap

----------------------------------------------------------------------------
(* HeatmapRenderer: the local calendar *)

\* the local calendar day of an instant in a zone z hours east of UTC
LocalDay(t, z) == (t + z) \div HoursPerDay

\* the instant at which the local day d begins
LocalMidnight(d, z) == d * HoursPerDay - z

\* Date.getDay() of a day: 0 is Sunday; 1 January 1970, day 0, was a Thursday
DayOfWeek(d) == (d + 4) % DaysPerWeek

\* Faulty variant: weeks that start on Monday
StartOfWeek_Monday(t, z) ==
    LocalMidnight(LocalDay(t, z) - ((DayOfWeek(LocalDay(t, z)) + 6) % DaysPerWeek), z)

\* date-fns startOfWeek(t, { weekStartsOn: 0 })
StartOfWeek(t, z) ==
    LocalMidnight(LocalDay(t, z) - DayOfWeek(LocalDay(t, z)), z)

\* date-fns addDays, Date.setDate(getDate() + n)
AddDays(t, n) == t + n * HoursPerDay

----------------------------------------------------------------------------
(* HeatmapRenderer.buildCellGrid, the first text of the file (lines 75-167) *)

DefaultColumns == 80
LabelColumns == 4
CellColumns == 2

Metrics == {"sessions", "tokens", "interactions"}

\* lines 106-121: the value of the day keyed dateKey under the metric
MetricValue(activityData, dateKey, metric) ==
    IF dateKey \notin DOMAIN activityData THEN 0
    ELSE CASE metric = "sessions" -> Cardinality(activityData[dateKey].sessions)
           [] metric = "tokens" -> activityData[dateKey].tokens
           [] metric = "interactions" -> activityData[dateKey].interactions

\* lines 82-86
MaxWeeksForWidth(cols) ==
    ((IF cols = 0 THEN DefaultColumns ELSE cols) - LabelColumns) \div CellColumns

\* Faulty variant: a cell before the range keeps intensity 0 and its value
MakeCell_PaddingShown(cellDate, value, start, end) ==
    IF cellDate > end
      THEN [date |-> cellDate, value |-> 0, intensity |-> 0]
      ELSE [date |-> cellDate, value |-> value, intensity |-> 0]

\* Faulty variant: a cell after the end date keeps the value found in the index
MakeCell_FutureKeepsValue(cellDate, value, start, end) ==
    IF cellDate >= start
      THEN [date |-> cellDate, value |-> value, intensity |-> 0]
      ELSE [date |-> cellDate, value |-> 0, intensity |-> -1]

\* lines 123-146
MakeCell(cellDate, value, start, end) ==
    IF cellDate >= start /\ cellDate <= end
      THEN [date |-> cellDate, value |-> value, intensity |-> 0]
      ELSE IF cellDate > end
        THEN [date |-> cellDate, value |-> 0, intensity |-> 0]
        ELSE [date |-> cellDate, value |-> 0, intensity |-> -1]

\* lines 103-147: the seven cells of the week that starts at weekStart
WeekCells(activityData, weekStart, start, end, metric) ==
    [day \in 1..DaysPerWeek |->
       LET cellDate == AddDays(weekStart, day - 1)
       IN  MakeCell(cellDate, MetricValue(activityData, UTCDay(cellDate), metric),
                    start, end)]

\* lines 101, 125, 150: the week has a cell inside the range
HasValidDay(weekStart, start, end) ==
    \E day \in 0..(DaysPerWeek - 1) :
       AddDays(weekStart, day) >= start /\ AddDays(weekStart, day) <= end

\* lines 88-156: every week from the week of the start date to the week of the end date
\* that has a cell inside the range
AllWeeks(activityData, start, end, metric, z) ==
    LET gridStart == StartOfWeek(start, z)
        gridEnd == AddDays(StartOfWeek(end, z), DaysPerWeek - 1)
        n == IF gridStart > gridEnd THEN 0
             ELSE ((gridEnd - gridStart) \div (DaysPerWeek * HoursPerDay)) + 1
        starts == [i \in 1..n |-> AddDays(gridStart, (i - 1) * DaysPerWeek)]
        kept == SelectSeq(starts, LAMBDA w : HasValidDay(w, start, end))
    IN  [i \in 1..Len(kept) |->
           WeekCells(activityData, kept[i], start, end, metric)]

\* Faulty variant: the oldest weeks are kept, slice(0, weeksToShow)
LastWeeks_Oldest(allWeeks, maxWeeks) ==
    LET weeksToShow == IF Len(allWeeks) < maxWeeks THEN Len(allWeeks) ELSE maxWeeks
    IN  IF weeksToShow < Len(allWeeks)
          THEN SubSeq(allWeeks, 1, weeksToShow)
          ELSE allWeeks

\* lines 158-166: the most recent weeks that fit the terminal
LastWeeks(allWeeks, maxWeeks) ==
    LET weeksToShow == IF Len(allWeeks) < maxWeeks THEN Len(allWeeks) ELSE maxWeeks
    IN  IF weeksToShow < Len(allWeeks)
          THEN SubSeq(allWeeks, Len(allWeeks) - weeksToShow + 1, Len(allWeeks))
          ELSE allWeeks

BuildCellGrid(activityData, start, end, metric, cols, z) ==
    LastWeeks(AllWeeks(activityData, start, end, metric, z),
              MaxWeeksForWidth(cols))

----------------------------------------------------------------------------
(* HeatmapRenderer.buildCellGrid, the second text of the file (lines 492-563) *)

WeekCap == 50

\* date-fns differenceInWeeks: whole weeks of whole days, rounded towards zero
DifferenceInWeeks(a, b) ==
    IF a >= b THEN ((a - b) \div HoursPerDay) \div DaysPerWeek
    ELSE 0 - (((b - a) \div HoursPerDay) \div DaysPerWeek)

Min(a, b) == IF a < b THEN a ELSE b

\* lines 543-556
MakeCell2(cellDate, value, end) ==
    IF cellDate > end
      THEN [date |-> cellDate, value |-> 0, intensity |-> -1]
      ELSE [date |-> cellDate, value |-> value, intensity |-> 0]

BuildCellGrid2(activityData, start, end, metric, cols, z) ==
    LET gridEnd == AddDays(StartOfWeek(end, z), DaysPerWeek - 1)
        weeks == DifferenceInWeeks(gridEnd, start) + 1
        weeksToShow == Min(Min(weeks, WeekCap), MaxWeeksForWidth(cols))
        gridStart == AddDays(gridEnd, 1 - weeksToShow * DaysPerWeek)
    IN  [week \in 1..weeksToShow |->
           [day \in 1..DaysPerWeek |->
              LET cellDate == AddDays(gridStart, (week - 1) * DaysPerWeek + day - 1)
              IN  MakeCell2(cellDate,
                            MetricValue(activityData, UTCDay(cellDate), metric),
                            end)]]

----------------------------------------------------------------------------
(* HeatmapRenderer.calculateIntensityLevels (lines 169-207, and 565-603) *)

\* the cells week by week, as the two loops visit them
Flatten(grid) ==
    [i \in 1..(Len(grid) * DaysPerWeek) |->
       grid[((i - 1) \div DaysPerWeek) + 1][((i - 1) % DaysPerWeek) + 1]]

\* Faulty variant: the values of cells marked -1 are collected too
CollectValues_Masked(grid) ==
    LET counted == SelectSeq(Flatten(grid), LAMBDA c : c.value > 0)
    IN  [i \in 1..Len(counted) |-> counted[i].value]

\* lines 171-178
CollectValues(grid) ==
    LET counted == SelectSeq(Flatten(grid), LAMBDA c : c.intensity # -1 /\ c.value > 0)
    IN  [i \in 1..Len(counted) |-> counted[i].value]

\* values.sort((a, b) => a - b)
RECURSIVE SortValues(_)
SortValues(values) ==
    IF values = <<>> THEN <<>>
    ELSE LET i == CHOOSE j \in 1..Len(values) :
                    \A k \in 1..Len(values) : values[j] <= values[k]
             rest == [k \in 1..(Len(values) - 1) |->
                        IF k < i THEN values[k] ELSE values[k + 1]]
         IN  <<values[i]>> \o SortValues(rest)

\* Faulty variant: the position is taken one-based, values[floor(length * k / 4) - 1]
Quartile_OneBased(sorted, k) ==
    sorted[IF (Len(sorted) * k) \div 4 = 0 THEN 1 ELSE (Len(sorted) * k) \div 4]

\* values[Math.floor(values.length * k / 4)], zero-based
Quartile(sorted, k) == sorted[((Len(sorted) * k) \div 4) + 1]

\* Faulty variant: strict comparisons, a value equal to a breakpoint goes up a level
Level_TieUp(value, q1, q2, q3) ==
    IF value = 0 THEN 0
    ELSE IF value < q1 THEN 1
    ELSE IF value < q2 THEN 2
    ELSE IF value < q3 THEN 3
    ELSE 4

\* Faulty variant: the levels are given in the reverse order, the lowest values brightest
Level_Inverted(value, q1, q2, q3) ==
    IF value = 0 THEN 0
    ELSE IF value <= q1 THEN 4
    ELSE IF value <= q2 THEN 3
    ELSE IF value <= q3 THEN 2
    ELSE 1

\* lines 194-204
Level(value, q1, q2, q3) ==
    IF value = 0 THEN 0
    ELSE IF value <= q1 THEN 1
    ELSE IF value <= q2 THEN 2
    ELSE IF value <= q3 THEN 3
    ELSE 4

IntensityLevels(grid) ==
    LET values == SortValues(CollectValues(grid))
    IN  IF values = <<>> THEN grid
        ELSE [w \in 1..Len(grid) |->
               [d \in 1..DaysPerWeek |->
                  IF grid[w][d].intensity = -1 THEN grid[w][d]
                  ELSE [grid[w][d] EXCEPT
                          !.intensity = Level(grid[w][d].value, Quartile(values, 1),
                                              Quartile(values, 2), Quartile(values, 3))]]]

----------------------------------------------------------------------------
(* HeatmapRenderer.renderStats and isConsecutive (lines 319-394, and 689-764) *)

Max(a, b) == IF a > b THEN a ELSE b

\* Array.from(activityData.keys()).sort(): the date keys in ascending order
RECURSIVE SortKeys(_)
SortKeys(keys) ==
    IF keys = {} THEN <<>>
    ELSE LET first == CHOOSE k \in keys : \A other \in keys : k <= other
         IN  <<first>> \o SortKeys(keys \ {first})

SortedDates(activityData) == SortKeys(DOMAIN activityData)

\* Faulty variant: any two keys that follow each other in the list count as consecutive
IsConsecutive_Always(date1, date2) == TRUE

\* lines 388-394: the two keys, read as UTC midnights, are one day apart
IsConsecutive(date1, date2) ==
    LET d1 == UTCMidnight(date1)
        d2 == UTCMidnight(date2)
        diffTime == IF d2 >= d1 THEN d2 - d1 ELSE d1 - d2
        diffDays == (diffTime + HoursPerDay - 1) \div HoursPerDay
    IN  diffDays = 1

\* Faulty variant: a day is counted and summed whatever its value
StatsStep_EveryDay(acc, value, continues) ==
    IF continues
      THEN [acc EXCEPT !.totalDays = @ + 1, !.totalValue = @ + value,
                       !.maxValue = Max(@, value), !.tempStreak = @ + 1]
      ELSE [acc EXCEPT !.totalDays = @ + 1, !.totalValue = @ + value,
                       !.maxValue = Max(@, value),
                       !.longestStreak = Max(@, acc.tempStreak), !.tempStreak = 1]

\* lines 347-362: one turn of the loop; continues is `i === 0 || isConsecutive(...)`
StatsStep(acc, value, continues) ==
    IF value > 0
      THEN IF continues
             THEN [acc EXCEPT !.totalDays = @ + 1, !.totalValue = @ + value,
                              !.maxValue = Max(@, value), !.tempStreak = @ + 1]
             ELSE [acc EXCEPT !.totalDays = @ + 1, !.totalValue = @ + value,
                              !.maxValue = Max(@, value),
                              !.longestStreak = Max(@, acc.tempStreak), !.tempStreak = 1]
      ELSE [acc EXCEPT !.longestStreak = Max(@, acc.tempStreak), !.tempStreak = 0]

\* lines 331-363: the loop from position i on
RECURSIVE StatsLoop(_, _, _, _, _)
StatsLoop(activityData, metric, sortedDates, i, acc) ==
    IF i > Len(sortedDates) THEN acc
    ELSE StatsLoop(activityData, metric, sortedDates, i + 1,
                   StatsStep(acc, MetricValue(activityData, sortedDates[i], metric),
                             i = 1 \/ IsConsecutive(sortedDates[i - 1], sortedDates[i])))

\* lines 319-375: the figures renderStats prints, at the instant clock
Statistics(activityData, metric, clock) ==
    LET sortedDates == SortedDates(activityData)
        acc == StatsLoop(activityData, metric, sortedDates, 1, NoStats)
        today == UTCDay(clock)
        yesterdayKey == UTCDay(AddDays(clock, -1))
    IN  [acc EXCEPT
           !.currentStreak = IF today \in DOMAIN activityData
                                \/ yesterdayKey \in DOMAIN activityData
                             THEN acc.tempStreak ELSE 0,
           !.longestStreak = Max(@, acc.tempStreak)]

----------------------------------------------------------------------------
(* HeatmapRenderer.render *)

MaxWindow == 9        \* largest options.days rendered
MaxEntries == 2       \* most days an index handed to render holds

TimeZones == {-5, 0, 9}
NarrowColumns == 8

\* process.stdout.columns: undefined (0), narrower than the day labels, narrow
ColumnWidths == {0, LabelColumns - 1, NarrowColumns}

\* the days render is run on: with BaseDay a Wednesday, a Saturday and a Sunday too
RenderClock == { UTCMidnight(BaseDay + d) + h : d \in {0, 3, 4}, h \in {0, HalfDay} }

\* a day's entry: one or two sessions, interactions not fewer, tokens possibly 0
DayActivityOf(d) ==
    [date |-> d,
     sessions |-> IF d % 2 = 0 THEN {<<"alpha", "s1">>, <<"beta", "s1">>}
                               ELSE {<<"alpha", "s1">>},
     interactions |-> 2 + (d % 3),
     tokens |-> (d % 4) * 50]

KeyDays == (BaseDay - 2)..(BaseDay + 5)

Indexes == { [d \in K |-> DayActivityOf(d)] :
               K \in {S \in SUBSET KeyDays : Cardinality(S) <= MaxEntries} }

InitRender ==
    /\ now \in RenderClock
    /\ tz \in TimeZones
    /\ fs = <<>>
    /\ days = 0
    /\ endDate = 0
    /\ cutoffDate = 0
    /\ activityMap \in Indexes
    /\ pc = "done"
    /\ ri = 0 /\ pi = 0 /\ fi = 0 /\ li = 0
    /\ prev = NoRun
    /\ options \in [metric : Metrics, days : 1..MaxWindow]
    /\ columns \in ColumnWidths
    /\ impl = 0
    /\ range = [startDate |-> 0, endDate |-> 0]
    /\ cells = <<>>
    /\ stats = NoStats
    /\ rpc = "idle"
    /\ NoMain

\* lines 35-41: the range of the last options.days days and the grid over it
Render ==
    /\ rpc = "idle"
    /\ pc = "done"
    /\ impl' = 1
    /\ range' = [startDate |-> AddDays(now, 1 - options.days), endDate |-> now]
    /\ cells' = BuildCellGrid(activityMap, AddDays(now, 1 - options.days), now,
                              options.metric, columns, tz)
    /\ rpc' = "built"
    /\ UNCHANGED <<now, tz, fs, prev, options, columns, stats>>
    /\ UNCHANGED loaderVars
    /\ UNCHANGED mainVars

\* lines 452-458: the same with the second buildCellGrid
Render2 ==
    /\ rpc = "idle"
    /\ pc = "done"
    /\ impl' = 2
    /\ range' = [startDate |-> AddDays(now, 1 - options.days), endDate |-> now]
    /\ cells' = BuildCellGrid2(activityMap, AddDays(now, 1 - options.days), now,
                               options.metric, columns, tz)
    /\ rpc' = "built"
    /\ UNCHANGED <<now, tz, fs, prev, options, columns, stats>>
    /\ UNCHANGED loaderVars
    /\ UNCHANGED mainVars

\* line 44 (and 461)
CalculateIntensityLevels ==
    /\ rpc = "built"
    /\ cells' = IntensityLevels(cells)
    /\ rpc' = "classified"
    /\ UNCHANGED <<now, tz, fs, prev, options, columns, impl, range, stats>>
    /\ UNCHANGED loaderVars
    /\ UNCHANGED mainVars

\* line 69 (and 484): the statistics block, with options.showStats
RenderStats ==
    /\ rpc = "classified"
    /\ stats' = Statistics(activityMap, options.metric, now)
    /\ rpc' = "stats"
    /\ UNCHANGED <<now, tz, fs, prev, options, columns, impl, range, cells>>
    /\ UNCHANGED loaderVars
    /\ UNCHANGED mainVars

NextRender ==
    \/ Render
    \/ Render2
    \/ CalculateIntensityLevels
    \/ RenderStats

SpecRender == InitRender /\ [][NextRender]_vars

----------------------------------------------------------------------------
(* calculateIntensityLevels on its own: the grids it is applied to *)

MaxValue == 5         \* largest value of a cell

\* one week: five cells inside the range with any values, in any order, a cell marked
\* -1 that may carry a value, and an empty cell inside the range
ClassifierGrids ==
    { << [d \in 1..DaysPerWeek |->
            [date |-> AddDays(UTCMidnight(BaseDay - DayOfWeek(BaseDay)), d - 1),
             value |-> IF d <= DaysPerWeek - 2 THEN f[d]
                       ELSE IF d = DaysPerWeek - 1 THEN m ELSE 0,
             intensity |-> IF d = DaysPerWeek - 1 THEN -1 ELSE 0]] >> :
        f \in [1..(DaysPerWeek - 2) -> 0..MaxValue], m \in {0, MaxValue} }

InitClassify ==
    /\ now = UTCMidnight(BaseDay)
    /\ tz = 0
    /\ fs = <<>>
    /\ days = 0
    /\ endDate = 0
    /\ cutoffDate = 0
    /\ activityMap = EmptyMap
    /\ pc = "done"
    /\ ri = 0 /\ pi = 0 /\ fi = 0 /\ li = 0
    /\ prev = NoRun
    /\ options = [metric |-> "tokens", days |-> DaysPerWeek]
    /\ columns = 0
    /\ impl = 1
    /\ range = [startDate |-> AddDays(now, 1 - DaysPerWeek), endDate |-> now]
    /\ cells \in ClassifierGrids
    /\ stats = NoStats
    /\ rpc = "built"
    /\ NoMain

SpecClassify == InitClassify /\ [][CalculateIntensityLevels]_vars

----------------------------------------------------------------------------
(* renderStats on its own: the indexes it is applied to *)

\* the entry of a day with usage, and of a day whose records carry no usage
ActiveDay(d) == [DayActivityOf(d) EXCEPT !.tokens = 50 + (d % 4) * 50]
IdleDay(d) == [DayActivityOf(d) EXCEPT !.tokens = 0]

\* the days before today and after it that an index may hold
StatsBefore == 4
StatsAfter == 1
StatsDays == (BaseDay - StatsBefore)..(BaseDay + StatsAfter)

StatsIndexes ==
    { [d \in {k \in StatsDays : f[k] # "none"} |->
         IF f[d] = "idle" THEN IdleDay(d) ELSE ActiveDay(d)] :
        f \in [StatsDays -> {"none", "active", "idle"}] }

InitStats ==
    /\ now = UTCMidnight(BaseDay) + HalfDay
    /\ tz = 0
    /\ fs = <<>>
    /\ days = 0
    /\ endDate = 0
    /\ cutoffDate = 0
    /\ activityMap \in StatsIndexes
    /\ pc = "done"
    /\ ri = 0 /\ pi = 0 /\ fi = 0 /\ li = 0
    /\ prev = NoRun
    /\ options \in [metric : Metrics, days : {MaxDays}]
    /\ columns = 0
    /\ impl = 1
    /\ range = [startDate |-> AddDays(now, 1 - options.days), endDate |-> now]
    /\ cells = IntensityLevels(BuildCellGrid(activityMap, range.startDate, now,
                                              options.metric, columns, tz))
    /\ stats = NoStats
    /\ rpc = "classified"
    /\ NoMain

SpecStats == InitStats /\ [][RenderStats]_vars

----------------------------------------------------------------------------
(* main (index.ts): one run of the command *)

\* Array.from(activity.sessions): every element of the set once
RECURSIVE ArrayFrom(_)
ArrayFrom(set) ==
    IF set = {} THEN <<>>
    ELSE LET x == CHOOSE e \in set : TRUE
         IN  <<x>> \o ArrayFrom(set \ {x})

\* Faulty variant: the number of sessions is written in place of the array
JsonData_SessionCount(map) ==
    [date \in DOMAIN map |->
       [sessions |-> Cardinality(map[date].sessions),
        interactions |-> map[date].interactions,
        tokens |-> map[date].tokens]]

\* index.ts lines 52-59: jsonData
JsonData(map) ==
    [date \in DOMAIN map |->
       [sessions |-> ArrayFrom(map[date].sessions),
        interactions |-> map[date].interactions,
        tokens |-> map[date].tokens]]

\* the trees of the runs of main: the index is empty when the first root ends at a
\* failing stat and the second cannot be listed
MainTrees ==
    { Tree(<<x, BadLine, y>>, st, "jsonl", rl) :
        x \in {Rec(UTCMidnight(BaseDay - 2)), RecU(UTCMidnight(BaseDay) + 6, UsageInCw)},
        y \in SecondPool, st \in {"dir", "staterr"}, rl \in BOOLEAN }

InitMain ==
    /\ now = UTCMidnight(BaseDay) + HalfDay
    /\ tz = 0
    /\ fs \in MainTrees
    /\ days = 0
    /\ endDate = 0
    /\ cutoffDate = 0
    /\ activityMap = EmptyMap
    /\ pc = "idle"
    /\ ri = 0 /\ pi = 0 /\ fi = 0 /\ li = 0
    /\ prev = NoRun
    /\ options \in [metric : Metrics, days : 1..MaxDays]
    /\ columns = 0
    /\ impl = 0
    /\ range = [startDate |-> 0, endDate |-> 0]
    /\ cells = <<>>
    /\ stats = NoStats
    /\ rpc = "idle"
    /\ json \in BOOLEAN
    /\ output = NoOutput

\* lines 38-41: loader.loadUsageData(days)
MainLoad ==
    /\ pc = "idle"
    /\ LoadUsageData
    /\ days' = options.days

\* lines 43-48: nothing was found; the notice is printed and the process exits
MainNoData ==
    /\ pc = "done" /\ rpc = "idle"
    /\ activityMap = EmptyMap
    /\ output' = [kind |-> "notice", data |-> EmptyMap]
    /\ rpc' = "exit"
    /\ UNCHANGED <<now, tz, fs, prev, options, columns, impl, range, cells, stats, json>>
    /\ UNCHANGED loaderVars

\* lines 51-62: --json
MainJson ==
    /\ pc = "done" /\ rpc = "idle"
    /\ activityMap # EmptyMap
    /\ json
    /\ output' = [kind |-> "json", data |-> JsonData(activityMap)]
    /\ rpc' = "exit"
    /\ UNCHANGED <<now, tz, fs, prev, options, columns, impl, range, cells, stats, json>>
    /\ UNCHANGED loaderVars

\* lines 64-74: the heatmap, by either text of HeatmapRenderer
MainRender ==
    /\ activityMap # EmptyMap
    /\ ~json
    /\ Render

MainRender2 ==
    /\ activityMap # EmptyMap
    /\ ~json
    /\ Render2

\* line 75: console.log(output)
MainPrint ==
    /\ rpc = "stats"
    /\ output' = [kind |-> "heatmap", data |-> EmptyMap]
    /\ rpc' = "exit"
    /\ UNCHANGED <<now, tz, fs, prev, options, columns, impl, range, cells, stats, json>>
    /\ UNCHANGED loaderVars

NextMain ==
    \/ MainLoad
    \/ ProcessDirectory
    \/ ProcessProject
    \/ ProcessJsonlFile
    \/ ProcessLine
    \/ Return
    \/ MainNoData
    \/ MainJson
    \/ MainRender
    \/ MainRender2
    \/ CalculateIntensityLevels
    \/ RenderStats
    \/ MainPrint

SpecMain == InitMain /\ [][NextMain]_vars

----------------------------------------------------------------------------
(* Notions the properties of the grid are stated with *)

GridCells == Range(Flatten(cells))

\* the local calendar day on which render runs, and the day a cell stands for
TodayLocal == LocalDay(range.endDate, tz)
CellDay(c) == LocalDay(c.date, tz)

\* the cell is dated after today
IsFuture(c) == c.date > range.endDate

\* what the index holds, under the metric, for the key buildCellGrid looks up
IndexValue(c) == MetricValue(activityMap, UTCDay(c.date), options.metric)

----------------------------------------------------------------------------
(* C8 *)

\* C8: on a display wide enough, the grid built by render for windowDays = N
\* marks exactly the N calendar days ending today as in-window cells (intensity
\* not -1), each carrying the metric value of its date; for N = 1 that is today alone.
C8_Original ==
    (rpc # "idle" /\ impl = 1 /\ columns = 0) =>
      LET inWindow == {c \in GridCells : c.intensity # -1}
      IN  /\ {CellDay(c) : c \in inWindow}
               = (TodayLocal - options.days + 1)..TodayLocal
          /\ \A c \in inWindow :
               c.value = MetricValue(activityMap, CellDay(c), options.metric)

----------------------------------------------------------------------------
(* C9 *)

----------------------------------------------------------------------------
(* C10 *)

\* C10: in the grid of buildCellGrid (lines 88-156), for every windowDays and every
\* weekday on which the window starts, each week has 7 cells holding the 7
\* consecutive dates from a Sunday to the Saturday after it, consecutive weeks are
\* 7 days apart, and every cell dated before the window start has intensity -1 and
\* value 0.
C10_FullWeeksPadded ==
    (rpc # "idle" /\ impl = 1) =>
      /\ \A w \in 1..Len(cells) :
           /\ Len(cells[w]) = 7
           /\ DayOfWeek(CellDay(cells[w][1])) = 0
           /\ \A d \in 1..7 :
                /\ CellDay(cells[w][d]) = CellDay(cells[w][1]) + d - 1
                /\ cells[w][d].date = LocalMidnight(CellDay(cells[w][d]), tz)
      /\ \A w \in 1..(Len(cells) - 1) :
           CellDay(cells[w + 1][1]) = CellDay(cells[w][1]) + 7
      /\ \A c \in GridCells :
           (c.date < range.startDate \/ CellDay(c) < LocalDay(range.startDate, tz))
             => c.intensity = -1 /\ c.value = 0

\* a grid of two weeks or more whose window starts in mid-week and whose index
\* holds activity for a day of the first week before the window
C10_Witness ==
    /\ rpc = "built"
    /\ impl = 1
    /\ Len(cells) >= 2
    /\ DayOfWeek(LocalDay(range.startDate, tz)) = 3
    /\ \E c \in GridCells :
         /\ CellDay(c) < LocalDay(range.startDate, tz)
         /\ IndexValue(c) > 0
         /\ c.intensity = -1 /\ c.value = 0

----------------------------------------------------------------------------
(* C11 *)

\* the Sunday that begins the week of the local day d
WeekOf(d) == d - DayOfWeek(d)

\* the weeks that hold a day of the last options.days calendar days
WindowWeeks == { WeekOf(d) : d \in (TodayLocal - options.days + 1)..TodayLocal }

\* the number of weeks the display has room for
ColumnBudget == IF MaxWeeksForWidth(columns) < 0 THEN 0 ELSE MaxWeeksForWidth(columns)

\* C11: the grid of buildCellGrid (lines 81-86, 158-166) never has more weeks than
\* the display has room for, every week has 7 cells, and when more weeks overlap the
\* window than fit, the grid is exactly the most recent maxWeeks of them, in order,
\* the week of today last.
C11_ColumnClipping ==
    (rpc # "idle" /\ impl = 1) =>
      /\ Len(cells) <= ColumnBudget
      /\ \A w \in 1..Len(cells) : Len(cells[w]) = DaysPerWeek
      /\ Cardinality(WindowWeeks) > ColumnBudget =>
            /\ Len(cells) = ColumnBudget
            /\ \A w \in 1..Len(cells) :
                  CellDay(cells[w][1]) = WeekOf(TodayLocal) - (Len(cells) - w) * DaysPerWeek

\* three weeks overlap the window and the display has room for two
C11_Witness ==
    /\ rpc = "built"
    /\ impl = 1
    /\ ColumnBudget = 2
    /\ Cardinality(WindowWeeks) = 3
    /\ Len(cells) = 2
    /\ \E d \in 1..DaysPerWeek : CellDay(cells[2][d]) = TodayLocal

----------------------------------------------------------------------------
(* C12 *)

\* the positions of a grid, and those whose cell counts for the breakpoints
Positions(grid) == {<<w, d>> : w \in 1..Len(grid), d \in 1..DaysPerWeek}
Counted(grid) ==
    {p \in Positions(grid) : grid[p[1]][p[2]].intensity # -1 /\ grid[p[1]][p[2]].value > 0}

\* v[i], zero-based, of the ascending list v of the counted values
Ascending(grid, i) ==
    CHOOSE x \in {grid[p[1]][p[2]].value : p \in Counted(grid)} :
      /\ Cardinality({p \in Counted(grid) : grid[p[1]][p[2]].value < x}) <= i
      /\ i < Cardinality({p \in Counted(grid) : grid[p[1]][p[2]].value <= x})

\* Qk = v[floor(len(v) * k / 4)]
Breakpoint(grid, k) == Ascending(grid, (Cardinality(Counted(grid)) * k) \div 4)

\* the level the quartile rule gives a value
QuartileLevel(grid, value) ==
    IF value = 0 THEN 0
    ELSE IF value <= Breakpoint(grid, 1) THEN 1
    ELSE IF value <= Breakpoint(grid, 2) THEN 2
    ELSE IF value <= Breakpoint(grid, 3) THEN 3
    ELSE 4

\* C12: calculateIntensityLevels gives every cell whose intensity is not -1 the
\* level 0 if its value is 0, 1 if value <= Q1, else 2 if value <= Q2, else 3 if
\* value <= Q3, else 4, with Qk = v[floor(len(v) * k / 4)] over the ascending list v
\* of the positive values of such cells; a value equal to a breakpoint gets the
\* lower level.
C12_QuartileClassification ==
    [][CalculateIntensityLevels =>
         \A p \in Positions(cells) :
           cells[p[1]][p[2]].intensity # -1 =>
             cells'[p[1]][p[2]].intensity = QuartileLevel(cells, cells[p[1]][p[2]].value)]_vars

\* a classified grid with three different breakpoints, every level 0..4 given, and
\* a cell whose value equals Q2 at level 2
C12_Witness ==
    /\ rpc = "classified"
    /\ Counted(cells) # {}
    /\ Breakpoint(cells, 1) < Breakpoint(cells, 2)
    /\ Breakpoint(cells, 2) < Breakpoint(cells, 3)
    /\ {c.intensity : c \in GridCells} = -1..4
    /\ \E c \in GridCells : c.value = Breakpoint(cells, 2) /\ c.intensity = 2

----------------------------------------------------------------------------
(* C13 *)

\* the values of the cells that count for the breakpoints
CountedValues(grid) == {grid[p[1]][p[2]].value : p \in Counted(grid)}

\* C13: when all positive in-window values of the grid are equal, however many
\* cells hold them, calculateIntensityLevels leaves every positive in-window cell
\* at level 1 and no cell at level 4.
C13_EqualValuesLevelOne ==
    (rpc = "classified" /\ Cardinality(CountedValues(cells)) = 1) =>
      /\ \A p \in Counted(cells) : cells[p[1]][p[2]].intensity = 1
      /\ \A c \in GridCells : c.intensity # 4

\* a classified grid with four in-window cells of one positive value, or more
C13_Witness ==
    /\ rpc = "classified"
    /\ Cardinality(CountedValues(cells)) = 1
    /\ Cardinality(Counted(cells)) >= 4
    /\ \A p \in Counted(cells) : cells[p[1]][p[2]].intensity = 1

----------------------------------------------------------------------------
(* C14 *)

\* the grid with the value of every cell marked -1 put to 0
MaskedZeroed(grid) ==
    [w \in 1..Len(grid) |->
       [d \in 1..DaysPerWeek |->
          IF grid[w][d].intensity = -1 THEN [grid[w][d] EXCEPT !.value = 0]
          ELSE grid[w][d]]]

\* C14: calculateIntensityLevels leaves every cell whose intensity is -1 as it was,
\* gives the other cells the levels it would give them were the values of the -1
\* cells all 0, changes no cell's date or value, and leaves the whole grid as it was
\* when no in-window cell has a positive value.
C14_ClassifierFrame ==
    [][CalculateIntensityLevels =>
         /\ Len(cells') = Len(cells)
         /\ \A p \in Positions(cells) :
              /\ cells'[p[1]][p[2]].date = cells[p[1]][p[2]].date
              /\ cells'[p[1]][p[2]].value = cells[p[1]][p[2]].value
              /\ cells[p[1]][p[2]].intensity = -1 =>
                    cells'[p[1]][p[2]] = cells[p[1]][p[2]]
              /\ cells[p[1]][p[2]].intensity # -1 =>
                    cells'[p[1]][p[2]].intensity =
                      IntensityLevels(MaskedZeroed(cells))[p[1]][p[2]].intensity
         /\ Counted(cells) = {} => cells' = cells]_vars

\* a classified grid whose cell marked -1 carries a value above every breakpoint
C14_Witness ==
    /\ rpc = "classified"
    /\ Counted(cells) # {}
    /\ \E c \in GridCells : c.intensity = -1 /\ c.value > Breakpoint(cells, 3)
    /\ \E c \in GridCells : c.intensity = 3

----------------------------------------------------------------------------
(* Notions the properties of the statistics are stated with *)

\* the key of today, as renderStats takes it
StatsToday == UTCDay(now)

\* the dates of the index whose value under the metric is positive
ActiveDates == {d \in DOMAIN activityMap : MetricValue(activityMap, d, options.metric) > 0}

\* the maximal run of calendar-consecutive active dates that ends at the active date b
RunEndingAt(b) ==
    LET a == CHOOSE x \in ActiveDates :
                 /\ x <= b
                 /\ \A d \in x..b : d \in ActiveDates
                 /\ (x - 1) \notin ActiveDates
    IN  a..b

\* the run that holds the latest active date
MostRecentRun ==
    IF ActiveDates = {} THEN {}
    ELSE RunEndingAt(CHOOSE b \in ActiveDates : \A d \in ActiveDates : d <= b)

\* the length of the longest run
LongestRun ==
    IF ActiveDates = {} THEN 0
    ELSE LET b == CHOOSE x \in ActiveDates :
                    \A d \in ActiveDates :
                       Cardinality(RunEndingAt(d)) <= Cardinality(RunEndingAt(x))
         IN  Cardinality(RunEndingAt(b))

RECURSIVE SumValues(_)
SumValues(dates) ==
    IF dates = {} THEN 0
    ELSE LET d == CHOOSE x \in dates : TRUE
         IN  MetricValue(activityMap, d, options.metric) + SumValues(dates \ {d})

----------------------------------------------------------------------------
(* C15 *)

\* C15: renderStats reports as currentStreak the length of the most recent run of
\* calendar-consecutive active dates when that run holds today or yesterday, and 0
\* otherwise, for every index and metric, with zero-valued days and dates after
\* today among them.
C15_Original ==
    rpc = "stats" =>
      stats.currentStreak =
        (IF StatsToday \in MostRecentRun \/ (StatsToday - 1) \in MostRecentRun
           THEN Cardinality(MostRecentRun) ELSE 0)

----------------------------------------------------------------------------
(* C16 *)

\* C16: renderStats reports as longestStreak the length of the longest maximal run
\* of calendar-consecutive dates whose value under the metric is positive, a missing
\* date and a zero-valued date both ending a run, and currentStreak is never above
\* longestStreak.
C16_LongestStreak ==
    rpc = "stats" =>
      /\ stats.longestStreak = LongestRun
      /\ stats.currentStreak <= stats.longestStreak

\* three active days in a row, a missing day, and today active: 3 and 1
C16_Witness ==
    /\ rpc = "stats"
    /\ DOMAIN activityMap = ((StatsToday - 4)..(StatsToday - 2)) \cup {StatsToday}
    /\ ActiveDates = DOMAIN activityMap
    /\ stats.longestStreak = 3
    /\ stats.currentStreak = 1

----------------------------------------------------------------------------
(* C17 *)

\* the index without its zero-valued days
ActiveOnly == [d \in ActiveDates |-> activityMap[d]]

\* C17: renderStats reports as activeDays the number of dates whose value under the
\* metric is positive, as totalValue the sum of the value over those dates and as
\* maxValue the largest value of a single date, 0 when no date is active; maxValue
\* is never above totalValue, and the three are what they are for the index without
\* its zero-valued days.
C17_Totals ==
    rpc = "stats" =>
      /\ stats.totalDays = Cardinality(ActiveDates)
      /\ stats.totalValue = SumValues(ActiveDates)
      /\ \A d \in ActiveDates : MetricValue(activityMap, d, options.metric) <= stats.maxValue
      /\ IF ActiveDates = {} THEN stats.maxValue = 0
         ELSE \E d \in ActiveDates :
                stats.maxValue = MetricValue(activityMap, d, options.metric)
      /\ stats.maxValue <= stats.totalValue
      /\ LET other == Statistics(ActiveOnly, options.metric, now)
         IN  /\ other.totalDays = stats.totalDays
             /\ other.totalValue = stats.totalValue
             /\ other.maxValue = stats.maxValue

\* the tokens of an index with a zero-valued day and two active days or more
C17_Witness ==
    /\ rpc = "stats"
    /\ options.metric = "tokens"
    /\ ActiveDates # DOMAIN activityMap
    /\ stats.totalDays >= 2
    /\ stats.maxValue > 0
    /\ stats.maxValue < stats.totalValue

----------------------------------------------------------------------------
(* C18 *)

\* the cell is dated inside the range render asked for
InRange(c) == range.startDate <= c.date /\ c.date <= range.endDate

\* C18: in every host time zone, every in-window cell of the grid carries the value,
\* under the metric, of the index entry keyed by the calendar date the cell stands
\* for in the grid, and 0 when the index has no entry for that date.
C18_Original ==
    (rpc # "idle" /\ impl = 1) =>
      \A c \in GridCells :
        InRange(c) => c.value = MetricValue(activityMap, CellDay(c), options.metric)

----------------------------------------------------------------------------
(* C19 *)

\* an entry as the fold keeps it
WellFormedEntry(k) ==
    /\ activityMap[k].date = k
    /\ activityMap[k].interactions >= 1
    /\ activityMap[k].sessions # {}
    /\ Cardinality(activityMap[k].sessions) <= activityMap[k].interactions
    /\ activityMap[k].tokens >= 0

\* C19: at every step of an aggregation pass every entry of the index has
\* interactions >= 1, a non-empty session set no larger than interactions, and
\* tokens >= 0; an entry appears only in the step that folds a record of its date
\* that is not older than the cutoff; and no step of the pass removes an entry or a
\* session id or decreases interactions or tokens.
C19_DayActivityInvariant ==
    /\ [](\A k \in DOMAIN activityMap : WellFormedEntry(k))
    /\ [][\A k \in (DOMAIN activityMap') \ (DOMAIN activityMap) :
            /\ AtLine
            /\ Qualifies(CurLine)
            /\ UTCDay(CurLine.ts) = k]_vars
    /\ [][pc \notin {"idle", "done"} =>
            \A k \in DOMAIN activityMap :
              /\ k \in DOMAIN activityMap'
              /\ activityMap[k].sessions \subseteq activityMap'[k].sessions
              /\ activityMap[k].interactions <= activityMap'[k].interactions
              /\ activityMap[k].tokens <= activityMap'[k].tokens]_vars

\* in the second root, after a line of its file: a day with more records than
\* sessions and with tokens, the first file read having begun with a record older
\* than the cutoff
C19_Witness ==
    /\ pc = "lines" /\ ri = 2 /\ li > 1
    /\ fs[1].projects[1].status = "dir"
    /\ fs[1].projects[1].files[1].kind = "jsonl"
    /\ fs[1].projects[1].files[1].lines[1].kind = "rec"
    /\ fs[1].projects[1].files[1].lines[1].ts < cutoffDate
    /\ \E k \in DOMAIN activityMap :
         /\ activityMap[k].interactions >= 2
         /\ Cardinality(activityMap[k].sessions) < activityMap[k].interactions
         /\ activityMap[k].tokens > 0

----------------------------------------------------------------------------
(* C20 *)

\* the object written has one key per date of the index, each with the day's
\* sessions as an array of its distinct ids, its interactions and its tokens
JsonOfIndex ==
    /\ output.kind = "json"
    /\ DOMAIN output.data = DOMAIN activityMap
    /\ \A d \in DOMAIN activityMap :
         /\ Range(output.data[d].sessions) = activityMap[d].sessions
         /\ Len(output.data[d].sessions) = Cardinality(activityMap[d].sessions)
         /\ output.data[d].interactions = activityMap[d].interactions
         /\ output.data[d].tokens = activityMap[d].tokens

\* C20: for every index the aggregation produces, a run with --json writes an
\* object with exactly one key per index date, holding the day's session ids as an
\* array with one element per distinct session, its interaction count and its token
\* total, and never invokes the grid builder, the classifier or the renderer.
C20_Original ==
    json =>
      /\ rpc \in {"idle", "exit"}
      /\ impl = 0 /\ cells = <<>> /\ stats = NoStats
      /\ rpc = "exit" => JsonOfIndex

----------------------------------------------------------------------------
(* C21 *)

\* the lines, as <<root, project, file, line>> positions, of the readable files of
\* the listable projects of the listable roots that hold a record with a valid
\* timestamp not earlier than the cutoff
QualifyingLines ==
    UNION { UNION { UNION {
        { <<r, p, f, i>> :
            i \in {j \in 1..Len(fs[r].projects[p].files[f].lines) :
                     Qualifies(fs[r].projects[p].files[f].lines[j])} } :
          f \in {g \in 1..Len(fs[r].projects[p].files) :
                   fs[r].projects[p].files[g].kind = "jsonl"} } :
        p \in {q \in 1..Len(fs[r].projects) : fs[r].projects[q].status = "dir"} } :
      r \in {x \in 1..Len(fs) : fs[x].listable} }

\* the UTC calendar date of the record at a position
DateOf(q) == UTCDay(fs[q[1]].projects[q[2]].files[q[3]].lines[q[4]].ts)

\* C21: at the end of loadUsageData the interactions of all entries add up to the
\* number of lines, in all readable files of all roots, that hold a record with a
\* valid timestamp not earlier than the cutoff, and every such record is counted
\* under the UTC calendar date of its timestamp and under no other.
C21_Original ==
    pc = "done" =>
      /\ TotalInteractions = Cardinality(QualifyingLines)
      /\ \A d \in DOMAIN activityMap \cup {DateOf(q) : q \in QualifyingLines} :
           Interactions(activityMap, d)
             = Cardinality({q \in QualifyingLines : DateOf(q) = d})

----------------------------------------------------------------------------
(* C22 *)

\* JSON that is not a record with a valid timestamp: null, an entry without a
\* timestamp, an entry whose timestamp does not parse
BadRecord(line) == line.kind \in {"null", "nots", "badts"}

\* the step about to be taken folds the current line in full
FoldsCurLineInFull ==
    LET k == UTCDay(CurLine.ts)
        u == CurLine.usage
    IN  /\ DOMAIN activityMap' = DOMAIN activityMap \cup {k}
        /\ \A d \in DOMAIN activityMap : d # k => activityMap'[d] = activityMap[d]
        /\ activityMap'[k].date = k
        /\ activityMap'[k].sessions
             = Sessions(activityMap, k) \cup {<<CurProject.name, CurFile.name>>}
        /\ activityMap'[k].interactions = Interactions(activityMap, k) + 1
        /\ activityMap'[k].tokens
             = Tokens(activityMap, k)
                 + (IF CurLine.hasUsage
                      THEN Counter(u, "input_tokens") + Counter(u, "output_tokens")
                             + Counter(u, "cache_creation_input_tokens")
                             + Counter(u, "cache_read_input_tokens")
                      ELSE 0)

\* C22: a line that parses as JSON but is null, or has no timestamp, or has one
\* that does not parse, leaves the index as it was and the pass goes on with the
\* next line; a record is folded in full (session id, one interaction, its tokens,
\* under its date alone) or leaves the index as it was.
C22_AtomicSkip ==
    /\ [][(AtLine /\ BadRecord(CurLine)) =>
            /\ activityMap' = activityMap
            /\ pc' = "lines" /\ li' = li + 1]_vars
    /\ [][(AtLine /\ CurLine.kind = "rec") =>
            \/ activityMap' = activityMap
            \/ FoldsCurLineInFull]_vars

\* the first file, read to its end: an entry whose timestamp does not parse, then
\* a record with usage folded in full into an index that was still empty
C22_Witness ==
    /\ InFirstFile
    /\ li = 4
    /\ CurFile.lines[1].kind = "badts"
    /\ Qualifies(CurFile.lines[3]) /\ CurFile.lines[3].hasUsage
    /\ DOMAIN activityMap = {UTCDay(CurFile.lines[3].ts)}
    /\ activityMap[UTCDay(CurFile.lines[3].ts)].interactions = 1
    /\ activityMap[UTCDay(CurFile.lines[3].ts)].tokens > 0

----------------------------------------------------------------------------
(* C23 *)

\* the cells of the grid that are not marked -1
InWindowCells == {c \in GridCells : c.intensity # -1}

\* C23: after calculateIntensityLevels the intensity of every cell is one of -1, 0,
\* 1, 2, 3, 4, an in-window cell is at level 0 exactly when its value is 0, and of
\* two in-window cells the one with the larger value never has the lower level.
C23_RangeAndMonotone ==
    rpc = "classified" =>
      /\ \A c \in GridCells : c.intensity \in -1..4
      /\ \A c \in InWindowCells : (c.intensity = 0) <=> (c.value = 0)
      /\ \A c1, c2 \in InWindowCells :
           c1.value <= c2.value => c1.intensity <= c2.intensity

\* a classified grid with an empty in-window cell at level 0 and in-window cells
\* of four different values at the levels 1 and 4 and two levels between them
C23_Witness ==
    /\ rpc = "classified"
    /\ \E c \in InWindowCells : c.value = 0 /\ c.intensity = 0
    /\ \E c1, c2, c3, c4 \in InWindowCells :
         /\ c1.value < c2.value /\ c2.value < c3.value /\ c3.value < c4.value
         /\ c1.intensity = 1 /\ c4.intensity = 4
         /\ c1.intensity < c2.intensity /\ c2.intensity < c3.intensity
         /\ c3.intensity < c4.intensity

----------------------------------------------------------------------------
(* C24 *)

\* renderGrid, line 279: the blanks put before each day label
LabelPadding == 4

\* renderGrid, line 262: the length of 'Sun' .. 'Sat'
DayLabelLength == 3

\* renderGrid, lines 279-297: the visible widths of the strings of one row, the
\* padded day label and then one character (a blank or a square) per week
RowStrings(grid) ==
    <<LabelPadding + DayLabelLength>> \o [w \in 1..Len(grid) |-> 1]

\* Array.prototype.join(' '): the widths of the strings and one blank between two
RECURSIVE JoinWidth(_)
JoinWidth(strings) ==
    IF strings = <<>> THEN 0
    ELSE IF Len(strings) = 1 THEN Head(strings)
    ELSE Head(strings) + 1 + JoinWidth(Tail(strings))

\* renderGrid, line 300: the visible width of every one of the seven rows
RowWidth(grid) == JoinWidth(RowStrings(grid))

\* the width the week cap of buildCellGrid is computed from (line 82)
TerminalWidth == IF columns = 0 THEN DefaultColumns ELSE columns

\* C24 as the specification states it: every row of the grid produced by renderGrid
\* (the padded day label and two characters per week column) is at most
\* terminalWidth characters wide.
C24_Original ==
    rpc \in {"classified", "stats"} => RowWidth(cells) <= TerminalWidth

\* a grid clipped to the week cap of a narrow terminal and then rendered
C24_ClippedRendered ==
    /\ rpc \in {"classified", "stats"}
    /\ columns = NarrowColumns
    /\ Len(cells) = MaxWeeksForWidth(columns)
    /\ Len(cells) > 0

\* the rows fit wherever the terminal width is unknown and the default of 80 is used
C24_FitsDefault ==
    (rpc \in {"classified", "stats"} /\ columns = 0) => RowWidth(cells) <= TerminalWidth

\* a row is never more than the day label's seven columns wider than the cap allows
C24_Overrun ==
    (rpc \in {"classified", "stats"} /\ columns >= LabelColumns) =>
        RowWidth(cells) <= TerminalWidth + (LabelPadding + DayLabelLength - LabelColumns)

----------------------------------------------------------------------------
(* C25 *)

\* the in-window cells of the grid that show activity
ActiveCells == {c \in InWindowCells : c.value > 0}

RECURSIVE SumCellValues(_)
SumCellValues(cs) ==
    IF cs = {} THEN 0
    ELSE LET c == CHOOSE x \in cs : TRUE
         IN  c.value + SumCellValues(cs \ {c})

\* the index of loadUsageData(N) has been rendered with the same N and the
\* statistics have been computed
StatsRendered ==
    /\ days = options.days
    /\ \/ rpc = "stats"
       \/ rpc = "exit" /\ output.kind = "heatmap"

\* C25 as the specification states it: for an index returned by loadUsageData(N) and
\* rendered with the same N and metric on a display wide enough, renderStats reports
\* as many active days as the grid has in-window cells with a value above 0, and a
\* total equal to the sum of the values of those cells.
C25_Original ==
    StatsRendered =>
      /\ stats.totalDays = Cardinality(ActiveCells)
      /\ stats.totalValue = SumCellValues(ActiveCells)

\* the grid and the statistics agree whenever every active date of the index is the
\* date of an in-window cell
C25_WhenShown ==
    (StatsRendered /\ ActiveDates \subseteq {UTCDay(c.date) : c \in InWindowCells}) =>
      /\ stats.totalDays = Cardinality(ActiveCells)
      /\ stats.totalValue = SumCellValues(ActiveCells)

\* statistics computed over an index whose active dates are all shown in the grid
C25_ShownRendered ==
    /\ StatsRendered
    /\ ActiveDates # {}
    /\ ActiveDates \subseteq {UTCDay(c.date) : c \in InWindowCells}

\* statistics that count the date N days before today, which is in the index of
\* loadUsageData(N) and is not among the N days of the window
C25_CutoffDayCounted ==
    /\ StatsRendered
    /\ (UTCDay(now) - options.days) \in ActiveDates
    /\ stats.totalDays > Cardinality(ActiveCells)

\* statistics that count a date among the N days ending today which the grid marks
\* as before its range
C25_FirstDayCounted ==
    /\ StatsRendered
    /\ \E d \in ActiveDates :
         /\ d > UTCDay(now) - options.days /\ d <= UTCDay(now)
         /\ \A c \in InWindowCells : UTCDay(c.date) # d

=============================================================================
